---- MODULE Spec2Model ----
(***************************************************************************)
(* django.urls: the per-thread script prefix and urlconf (base.py), the    *)
(* namespace walk of reverse(), translate_url(), the memoised lookups      *)
(* cleared by clear_url_caches(), get_callable() (utils.py) and include()  *)
(* (conf.py).                                                              *)
(*                                                                         *)
(* A Python str is a sequence of tokens: each delimiter the code looks at  *)
(* ("/", ":", ".", "?", "#", "[", "]") is a token of its own and a run of  *)
(* other characters is one token, so split, endswith, rindex and join are  *)
(* computed on the sequence.                                               *)
(***************************************************************************)
EXTENDS Integers, Sequences, FiniteSets, TLC

VARIABLES prefixes, urlconfs, callable_cache, resolver_cache,
          ns_resolver_cache, last

vars == <<prefixes, urlconfs, callable_cache, resolver_cache,
          ns_resolver_cache, last>>

caches == <<callable_cache, resolver_cache, ns_resolver_cache>>

(***************************************************************************)
(* Bounds.                                                                 *)
(***************************************************************************)
NThreads == 2

Threads == 1..NThreads

(***************************************************************************)
(* Python values.                                                          *)
(***************************************************************************)
None == <<"<None>">>

\* threading.local(): the attribute "value" does not exist in this thread.
Unset == <<"<unset>">>

truthy(v) == v # None /\ v # <<>>

\* isinstance(v, str): a function object and an int are tagged sequences.
is_str(v) == v = << >> \/ v[1] \notin {"<None>", "<fn>", "<int>"}

callable(v) == v # << >> /\ v[1] = "<fn>"

endswith(s, tok) == Len(s) > 0 /\ s[Len(s)] = tok

EmptyCache == {}

Call(t, op, args, res, exc, computed, d) ==
    [t |-> t, op |-> op, args |-> args, res |-> res, exc |-> exc,
     computed |-> computed, d |-> d]

NoDetail == [none |-> TRUE]

(***************************************************************************)
(* base.py: the ambient, thread-local state.                               *)
(***************************************************************************)
\* getattr(store, "value", default) in thread t
getattr_value(store, t, default) == IF store[t] = Unset THEN default ELSE store[t]

get_script_prefix(t) == getattr_value(prefixes, t, <<"/">>)

get_urlconf(t, default) == getattr_value(urlconfs, t, default)

set_script_prefix_shared(t, prefix) ==
    LET p == IF endswith(prefix, "/") THEN prefix ELSE prefix \o <<"/">>
    IN  /\ prefixes' = [u \in Threads |-> p]
        /\ last' = Call(t, "set_script_prefix", <<prefix>>, None, "none", {}, NoDetail)
        /\ UNCHANGED <<urlconfs, caches>>

\* set_script_prefix without the endswith test: the prefix is stored as given.
set_script_prefix_raw(t, prefix) ==
    /\ prefixes' = [prefixes EXCEPT ![t] = prefix]
    /\ last' = Call(t, "set_script_prefix", <<prefix>>, None, "none", {}, NoDetail)
    /\ UNCHANGED <<urlconfs, caches>>

set_script_prefix(t, prefix) ==
    LET p == IF endswith(prefix, "/") THEN prefix ELSE prefix \o <<"/">>
    IN  /\ prefixes' = [prefixes EXCEPT ![t] = p]
        /\ last' = Call(t, "set_script_prefix", <<prefix>>, None, "none", {}, NoDetail)
        /\ UNCHANGED <<urlconfs, caches>>

\* django.setup(set_prefix): of its steps only the script prefix is part of
\* this state; force_script_name is settings.FORCE_SCRIPT_NAME.
setup(t, set_prefix, force_script_name) ==
    IF set_prefix
    THEN set_script_prefix(t, IF force_script_name = None THEN <<"/">>
                              ELSE force_script_name)
    ELSE /\ last' = Call(t, "setup", <<force_script_name>>, None, "none", {}, NoDetail)
         /\ UNCHANGED <<prefixes, urlconfs, caches>>

call_get_script_prefix(t) ==
    /\ last' = Call(t, "get_script_prefix", << >>, get_script_prefix(t), "none", {}, NoDetail)
    /\ UNCHANGED <<prefixes, urlconfs, caches>>

\* del _prefixes.value without the try/except: AttributeError when unset.
clear_script_prefix_strict(t) ==
    /\ prefixes' = [prefixes EXCEPT ![t] = Unset]
    /\ last' = Call(t, "clear_script_prefix", << >>, None,
                    IF prefixes[t] = Unset THEN "AttributeError" ELSE "none",
                    {}, [caught |-> FALSE])
    /\ UNCHANGED <<urlconfs, caches>>

\* d.caught: the del raised AttributeError, which the function swallowed.
clear_script_prefix(t) ==
    /\ prefixes' = [prefixes EXCEPT ![t] = Unset]
    /\ last' = Call(t, "clear_script_prefix", << >>, None, "none", {},
                    [caught |-> prefixes[t] = Unset])
    /\ UNCHANGED <<urlconfs, caches>>

set_urlconf(t, urlconf_name) ==
    /\ urlconfs' = [urlconfs EXCEPT ![t] =
                        IF truthy(urlconf_name) THEN urlconf_name ELSE Unset]
    /\ last' = Call(t, "set_urlconf", <<urlconf_name>>, None, "none", {},
                    [had |-> urlconfs[t] # Unset])
    /\ UNCHANGED <<prefixes, caches>>

call_get_urlconf(t, default) ==
    /\ last' = Call(t, "get_urlconf", <<default>>, get_urlconf(t, default), "none", {}, NoDetail)
    /\ UNCHANGED <<prefixes, urlconfs, caches>>

(***************************************************************************)
(* str and list operations used by the code.                               *)
(***************************************************************************)
Last(s) == s[Len(s)]

Front(s) == SubSeq(s, 1, Len(s) - 1)

\* list.reverse()
Rev(s) == [i \in 1..Len(s) |-> s[Len(s) + 1 - i]]

\* The value v handed to F, evaluated once.
Bind(v, F(_)) == CHOOSE y \in { F(x) : x \in {v} } : TRUE

\* The j-th smallest element of a set of integers.
Nth(P, j) == CHOOSE x \in P : Cardinality({ y \in P : y < x }) = j - 1

\* str.split(sep): the segments between the separators, empty ones kept.
split(s, sep) ==
    Bind({0, Len(s) + 1} \cup { i \in 1..Len(s) : s[i] = sep },
         LAMBDA P : [ j \in 1..(Cardinality(P) - 1) |->
                        SubSeq(s, Nth(P, j) + 1, Nth(P, j + 1) - 1) ])

RECURSIVE join(_, _)
\* sep.join(parts)
join(parts, sep) ==
    IF parts = << >> THEN << >>
    ELSE IF Len(parts) = 1 THEN parts[1]
    ELSE parts[1] \o <<sep>> \o join(Tail(parts), sep)

Range(s) == { s[i] : i \in 1..Len(s) }

(***************************************************************************)
(* The URL configuration the resolvers are populated from: two urlconf     *)
(* modules, each a tree of namespaced includes.  For every resolver:       *)
(* app_dict (application name -> list of instance namespaces),             *)
(* namespace_dict (namespace -> (prefix fragment, resolver)), the          *)
(* converters of its own pattern and its named leaves (per language).      *)
(***************************************************************************)
ROOT_URLCONF == <<"urlsA">>

Langs == {"en", "fr"}

DefaultLang == "en"

Leaf(name, en, fr) ==
    [name |-> name, callback |-> <<"<fn>">> \o name,
     frag |-> [l \in Langs |-> IF l = "en" THEN en ELSE fr]]

NsEntry(ns, extra, resolver) == [ns |-> ns, extra |-> extra, resolver |-> resolver]

AppEntry(app, list) == [app |-> app, list |-> list]

Node(apps, nss, convs, leaves) ==
    [app_dict |-> apps, namespace_dict |-> nss, converters |-> convs, leaves |-> leaves]

DetailLeaves == { Leaf(<<"detail">>, <<"detail", "/">>, <<"detail-fr", "/">>) }

IndexLeaves == { Leaf(<<"index">>, <<"index", "/">>, <<"index", "/">>) }

Resolvers ==
    [ r \in {"RA", "A_blog", "A_blog2", "A_news1", "A_news2", "A_shop",
             "A_shop_blog", "A_shop_blog2", "RB", "B_blog", "B_blog2"} |->
      CASE r = "RA" ->
             Node({ AppEntry(<<"blog">>, << <<"blog">>, <<"blog2">> >>),
                    AppEntry(<<"news">>, << <<"news1">>, <<"news2">> >>),
                    AppEntry(<<"shop">>, << <<"shop">> >>) },
                  { NsEntry(<<"blog">>, <<"blog", "/">>, "A_blog"),
                    NsEntry(<<"blog2">>, <<"blog2", "/">>, "A_blog2"),
                    NsEntry(<<"news1">>, << >>, "A_news1"),
                    NsEntry(<<"news2">>, <<"n2", "/">>, "A_news2"),
                    NsEntry(<<"shop">>, <<"shop", "/", "<sid>", "/">>, "A_shop") },
                  {},
                  { Leaf(<<"home">>, << >>, << >>),
                    Leaf(None, <<"raw", "/">>, <<"raw", "/">>) })
        [] r = "A_shop" ->
             Node({ AppEntry(<<"blog">>, << <<"blog">>, <<"blog2">> >>) },
                  { NsEntry(<<"blog">>, <<"b", "/">>, "A_shop_blog"),
                    NsEntry(<<"blog2">>, <<"b2", "/">>, "A_shop_blog2") },
                  {"<sid>"},
                  { Leaf(<<"cart">>, <<"cart", "/">>, <<"panier", "/">>) })
        [] r = "RB" ->
             Node({ AppEntry(<<"blog">>, << <<"blog2">>, <<"blog">> >>) },
                  { NsEntry(<<"blog">>, <<"blog", "/">>, "B_blog"),
                    NsEntry(<<"blog2">>, <<"blog2", "/">>, "B_blog2") },
                  {},
                  { Leaf(<<"home">>, << >>, << >>) })
        [] r \in {"A_news1", "A_news2"} -> Node({}, {}, {}, IndexLeaves)
        [] OTHER -> Node({}, {}, {}, DetailLeaves) ]

RootOf(urlconf) == IF urlconf = <<"urlsB">> THEN "RB" ELSE "RA"

(***************************************************************************)
(* functools.lru_cache(maxsize=None): a successful call is stored under    *)
(* its arguments and never evicted; a hit returns the stored value.        *)
(***************************************************************************)
Cached(cache, key) == \E e \in cache : e.k = key

CachedValue(cache, key) == (CHOOSE e \in cache : e.k = key).v

lru_lookup(cache, name, key, value) ==
    IF Cached(cache, key)
    THEN [cache |-> cache, value |-> CachedValue(cache, key), computed |-> {}]
    ELSE [cache |-> cache \cup {[k |-> key, v |-> value]},
          value |-> value, computed |-> {<<name, key>>}]

\* resolvers.get_resolver(urlconf=None): the root resolver of the urlconf
\* (settings.ROOT_URLCONF for None), memoised on the argument.
get_resolver(cache, urlconf) ==
    lru_lookup(cache, "get_resolver", urlconf,
               RootOf(IF urlconf = None THEN ROOT_URLCONF ELSE urlconf))

\* resolvers.get_ns_resolver(ns_pattern, resolver, converters): the resolver
\* wrapped under the accumulated namespace prefix, memoised on the arguments.
get_ns_resolver(cache, ns_pattern, resolver, converters) ==
    lru_lookup(cache, "get_ns_resolver", <<ns_pattern, resolver, converters>>,
               [ns_pattern |-> ns_pattern, resolver |-> resolver,
                converters |-> converters])

(***************************************************************************)
(* resolvers.py, consulted by reverse() and resolve().                     *)
(***************************************************************************)
HasApp(resolver, ns) == \E e \in Resolvers[resolver].app_dict : e.app = ns

AppList(resolver, ns) == (CHOOSE e \in Resolvers[resolver].app_dict : e.app = ns).list

HasNs(resolver, ns) == \E e \in Resolvers[resolver].namespace_dict : e.ns = ns

NsOf(resolver, ns) == CHOOSE e \in Resolvers[resolver].namespace_dict : e.ns = ns

HasKw(kwargs, k) == \E e \in kwargs : e.k = k

KwValue(kwargs, k) == (CHOOSE e \in kwargs : e.k = k).v

RECURSIVE render(_, _)
\* A pattern fragment with every converter token replaced by its argument.
render(frag, kwargs) ==
    IF frag = << >> THEN << >>
    ELSE <<(IF HasKw(kwargs, frag[1]) THEN KwValue(kwargs, frag[1]) ELSE frag[1])>>
         \o render(Tail(frag), kwargs)

\* django.utils.encoding.iri_to_uri: non-ASCII characters are percent-encoded.
iri_to_uri(s) == [i \in DOMAIN s |-> IF s[i] = "U+00E9" THEN "%C3%A9" ELSE s[i]]

\* URLResolver._reverse_with_prefix(view, prefix, **kwargs) of the resolver
\* get_ns_resolver built: the leaf named view, rendered under the namespace
\* prefixes and the script prefix; NoReverseMatch when no leaf has the name
\* or the arguments do not fit the pattern's converters.
reverse_with_prefix(resolver, ns_pattern, ns_converters, view, prefix, kwargs, lang) ==
    LET cands == { l \in Resolvers[resolver].leaves :
                       (l.name # None /\ l.name = view) \/ l.callback = view }
        fits  == { e.k : e \in kwargs } = ns_converters
    IN  IF cands = {} \/ ~fits
        THEN [exc |-> "NoReverseMatch", url |-> None]
        ELSE [exc |-> "none",
              url |-> prefix \o render(ns_pattern, kwargs)
                      \o (CHOOSE l \in cands : TRUE).frag[lang]]

(***************************************************************************)
(* base.py: reverse().                                                     *)
(***************************************************************************)
\* The choice that never consults the current_app hint.
choose_ns_nohint(resolver, ns, current_ns) ==
    IF HasApp(resolver, ns)
    THEN LET app_list == AppList(resolver, ns)
         IN  IF ns \notin Range(app_list) THEN app_list[1] ELSE ns
    ELSE ns

\* The choice that falls back on the first instance even for a default one.
choose_ns_first(resolver, ns, current_ns) ==
    IF HasApp(resolver, ns)
    THEN LET app_list == AppList(resolver, ns)
         IN  IF truthy(current_ns) /\ current_ns \in Range(app_list)
             THEN current_ns
             ELSE app_list[1]
    ELSE ns

\* The instance chosen for segment ns in resolver (lines 85-97).
choose_ns(resolver, ns, current_ns) ==
    IF HasApp(resolver, ns)
    THEN LET app_list == AppList(resolver, ns)
         IN  IF truthy(current_ns) /\ current_ns \in Range(app_list)
             THEN current_ns
             ELSE IF ns \notin Range(app_list)
             THEN app_list[1]
             ELSE ns
    ELSE ns

\* The message that never names the namespaces already resolved.
ns_error_message_bare(key, resolved_path) ==
    <<"'">> \o key \o <<"'", " is not a registered namespace">>

\* The text of the NoReverseMatch raised for a KeyError on key (lines 107-114).
ns_error_message(key, resolved_path) ==
    IF resolved_path # << >>
    THEN <<"'">> \o key \o <<"'", " is not a registered namespace inside ", "'">>
         \o join(resolved_path, ":") \o <<"'">>
    ELSE <<"'">> \o key \o <<"'", " is not a registered namespace">>

\* One iteration's pop of the namespace and of the current_app hint.
WalkState(path, has_current, current_path, resolver, resolved_path, ns_pattern, ns_converters, steps) ==
    [path |-> path, has_current |-> has_current, current_path |-> current_path,
     resolver |-> resolver, resolved_path |-> resolved_path,
     ns_pattern |-> ns_pattern, ns_converters |-> ns_converters, steps |-> steps]

\* The iteration without lines 99-100: the hint outlives a namespace that
\* differs from its segment.
walk_step_keephint(w, seg, rest) ==
    Bind(w.has_current /\ w.current_path # << >>, LAMBDA live :
    Bind(IF live THEN Last(w.current_path) ELSE None, LAMBDA current_ns :
    Bind(choose_ns(w.resolver, seg, current_ns), LAMBDA ns :
    Bind([seg |-> seg, current_ns |-> current_ns, ns |-> ns,
          resolver |-> w.resolver], LAMBDA step :
        IF HasNs(w.resolver, ns)
        THEN Bind(NsOf(w.resolver, ns), LAMBDA e :
                 [exc |-> "none", msg |-> << >>,
                  w |-> WalkState(rest,
                          w.has_current,
                          IF live THEN Front(w.current_path) ELSE w.current_path,
                          e.resolver,
                          Append(w.resolved_path, ns),
                          w.ns_pattern \o e.extra,
                          w.ns_converters \cup Resolvers[e.resolver].converters,
                          Append(w.steps, step))])
        ELSE [exc |-> "NoReverseMatch",
              msg |-> ns_error_message(ns, w.resolved_path),
              w |-> [w EXCEPT !.path = rest, !.steps = Append(w.steps, step)]]))))

\* One iteration of the while loop (lines 82-114) on namespace seg, the other
\* namespaces rest still to come: [done, exc, msg, w].
walk_step(w, seg, rest) ==
    Bind(w.has_current /\ w.current_path # << >>, LAMBDA live :
    Bind(IF live THEN Last(w.current_path) ELSE None, LAMBDA current_ns :
    Bind(choose_ns(w.resolver, seg, current_ns), LAMBDA ns :
    Bind([seg |-> seg, current_ns |-> current_ns, ns |-> ns,
          resolver |-> w.resolver], LAMBDA step :
        IF HasNs(w.resolver, ns)
        THEN Bind(NsOf(w.resolver, ns), LAMBDA e :
                 [exc |-> "none", msg |-> << >>,
                  w |-> WalkState(rest,
                          w.has_current /\ ns = current_ns,
                          IF live THEN Front(w.current_path) ELSE w.current_path,
                          e.resolver,
                          Append(w.resolved_path, ns),
                          w.ns_pattern \o e.extra,
                          w.ns_converters \cup Resolvers[e.resolver].converters,
                          Append(w.steps, step))])
        ELSE [exc |-> "NoReverseMatch",
              msg |-> ns_error_message(ns, w.resolved_path),
              w |-> [w EXCEPT !.path = rest, !.steps = Append(w.steps, step)]]))))

RECURSIVE walk_inner_first(_)
\* The loop taking the namespaces from the front of the reversed list.
walk_inner_first(w) ==
    IF w.path = << >>
    THEN [exc |-> "none", msg |-> << >>] @@ w
    ELSE Bind(walk_step(w, Head(w.path), Tail(w.path)), LAMBDA r :
             IF r.exc = "none" THEN walk_inner_first(r.w)
             ELSE [exc |-> r.exc, msg |-> r.msg] @@ r.w)

RECURSIVE walk(_)
\* The while loop of lines 81-114 from the state w: path.pop() takes the
\* last element of the reversed list.
walk(w) ==
    IF w.path = << >>
    THEN [exc |-> "none", msg |-> << >>] @@ w
    ELSE Bind(walk_step(w, Last(w.path), Front(w.path)), LAMBDA r :
             IF r.exc = "none" THEN walk(r.w)
             ELSE [exc |-> r.exc, msg |-> r.msg] @@ r.w)

\* reverse(viewname, urlconf, args=None, kwargs, current_app) in thread t with
\* the caches rc (get_resolver) and nc (get_ns_resolver), under language lang.
reverse(t, rc, nc, viewname, urlconf, kwargs, current_app, lang) ==
    Bind(get_resolver(rc, IF urlconf = None THEN get_urlconf(t, None) ELSE urlconf),
         LAMBDA r1 :
    Bind(get_script_prefix(t), LAMBDA prefix :
    Bind(IF is_str(viewname) THEN Rev(split(viewname, ":")) ELSE <<viewname>>,
         LAMBDA parts :
    Bind(walk(WalkState(Tail(parts), truthy(current_app),
                        IF truthy(current_app)
                        THEN Rev(split(current_app, ":")) ELSE << >>,
                        r1.value, << >>, << >>, {}, << >>)), LAMBDA w :
    Bind(IF w.exc = "none" /\ w.ns_pattern # << >>
         THEN get_ns_resolver(nc, w.ns_pattern, w.resolver, w.ns_converters)
         ELSE [cache |-> nc, value |-> None, computed |-> {}], LAMBDA r2 :
    Bind(IF w.exc = "none"
         THEN reverse_with_prefix(w.resolver, w.ns_pattern, w.ns_converters,
                                  parts[1], prefix, kwargs, lang)
         ELSE [exc |-> w.exc, url |-> None], LAMBDA out :
        [exc |-> out.exc,
         res |-> IF out.exc = "none" THEN iri_to_uri(out.url) ELSE None,
         rc |-> r1.cache, nc |-> r2.cache,
         computed |-> r1.computed \cup r2.computed,
         d |-> [view |-> parts[1], prefix |-> prefix, root |-> r1.value,
                steps |-> w.steps, resolved_path |-> w.resolved_path,
                ns_pattern |-> w.ns_pattern, resolver |-> w.resolver,
                ns_converters |-> w.ns_converters, walk_exc |-> w.exc,
                left |-> w.path, hint_live |-> w.has_current,
                msg |-> IF w.exc = "none" THEN << >> ELSE w.msg]]))))))

\* reverse() called under the caches as they stand.
reverse_now(t, viewname, urlconf, kwargs, current_app) ==
    reverse(t, resolver_cache, ns_resolver_cache, viewname, urlconf, kwargs,
            current_app, DefaultLang)

call_reverse(t, viewname, urlconf, kwargs, current_app) ==
    /\ resolver_cache' = reverse_now(t, viewname, urlconf, kwargs, current_app).rc
    /\ ns_resolver_cache' = reverse_now(t, viewname, urlconf, kwargs, current_app).nc
    /\ last' = Bind(reverse_now(t, viewname, urlconf, kwargs, current_app), LAMBDA r :
                    Call(t, "reverse", <<viewname, urlconf, current_app>>,
                         r.res, r.exc, r.computed, r.d @@ [kwargs |-> kwargs]))
    /\ UNCHANGED <<prefixes, urlconfs, callable_cache>>

(***************************************************************************)
(* base.py: resolve(), is_valid_path(), translate_url().                   *)
(***************************************************************************)
IntTokens == {"7"}

RECURSIVE routes(_, _)
\* Every route below resolver: its path pattern, namespace trail and name.
routes(resolver, lang) ==
    { [pat |-> l.frag[lang], namespaces |-> << >>, url_name |-> l.name] :
          l \in Resolvers[resolver].leaves }
    \cup UNION { { [pat |-> e.extra \o m.pat,
                    namespaces |-> <<e.ns>> \o m.namespaces,
                    url_name |-> m.url_name] : m \in routes(e.resolver, lang) } :
                 e \in Resolvers[resolver].namespace_dict }

matches(pat, path) ==
    /\ Len(pat) = Len(path)
    /\ \A i \in 1..Len(pat) :
           \/ pat[i] = path[i]
           \/ pat[i] = "<sid>" /\ path[i] \in IntTokens

\* URLResolver.resolve(path) of the root resolver (pattern '^/').
resolver_resolve(root, path, lang) ==
    IF path = << >> \/ path[1] # "/"
    THEN [exc |-> "Resolver404", match |-> None]
    ELSE Bind({ m \in routes(root, lang) : matches(m.pat, Tail(path)) }, LAMBDA hits :
         IF hits = {}
         THEN [exc |-> "Resolver404", match |-> None]
         ELSE Bind(CHOOSE h \in hits : TRUE, LAMBDA m :
              [exc |-> "none",
               match |-> [namespace |-> join(m.namespaces, ":"),
                          url_name |-> m.url_name,
                          kwargs |-> { [k |-> m.pat[i], v |-> path[i + 1]] :
                                       i \in { j \in 1..Len(m.pat) : m.pat[j] = "<sid>" } }]]))

resolve(t, rc, path, urlconf) ==
    Bind(get_resolver(rc, IF urlconf = None THEN get_urlconf(t, None) ELSE urlconf),
         LAMBDA r1 :
    Bind(resolver_resolve(r1.value, path, DefaultLang), LAMBDA m :
        [exc |-> m.exc, match |-> m.match, rc |-> r1.cache, computed |-> r1.computed,
         d |-> [root |-> r1.value]]))

call_resolve(t, path, urlconf) ==
    /\ resolver_cache' = resolve(t, resolver_cache, path, urlconf).rc
    /\ last' = Bind(resolve(t, resolver_cache, path, urlconf), LAMBDA r :
                    Call(t, "resolve", <<path, urlconf>>, r.match, r.exc, r.computed, r.d))
    /\ UNCHANGED <<prefixes, urlconfs, callable_cache, ns_resolver_cache>>

is_valid_path(t, path, urlconf) ==
    /\ resolver_cache' = resolve(t, resolver_cache, path, urlconf).rc
    /\ last' = Bind(resolve(t, resolver_cache, path, urlconf), LAMBDA r :
                    Call(t, "is_valid_path", <<path, urlconf>>, r.exc = "none", "none",
                         r.computed, r.d))
    /\ UNCHANGED <<prefixes, urlconfs, callable_cache, ns_resolver_cache>>

IndexOf(s, tok) == IF \E i \in 1..Len(s) : s[i] = tok
                   THEN CHOOSE i \in 1..Len(s) : s[i] = tok /\ \A j \in 1..(i - 1) : s[j] # tok
                   ELSE 0

Delims == {"/", ":", "?", "#", "[", "]"}

\* The first index of s at or after which a token of toks stands; Len(s) + 1
\* when there is none.
FirstOf(s, toks) ==
    IF \E i \in 1..Len(s) : s[i] \in toks
    THEN CHOOSE i \in 1..Len(s) : s[i] \in toks /\ \A j \in 1..(i - 1) : s[j] \notin toks
    ELSE Len(s) + 1

\* urllib.parse.urlsplit(url): (scheme, netloc, path, query, fragment);
\* ValueError for a netloc with an unmatched bracket.
urlsplit(url) ==
    Bind(IndexOf(url, ":"), LAMBDA c :
    Bind(c > 1 /\ \A i \in 1..(c - 1) : url[i] \notin Delims, LAMBDA has_sch :
    Bind(IF has_sch THEN SubSeq(url, c + 1, Len(url)) ELSE url, LAMBDA u1 :
    Bind(Len(u1) >= 2 /\ u1[1] = "/" /\ u1[2] = "/", LAMBDA has_net :
    Bind(IF has_net THEN SubSeq(u1, 3, Len(u1)) ELSE u1, LAMBDA after :
    Bind(IF has_net THEN FirstOf(after, {"/", "?", "#"}) ELSE 1, LAMBDA cut :
    Bind(SubSeq(after, 1, cut - 1), LAMBDA netloc :
    Bind(SubSeq(after, cut, Len(after)), LAMBDA u2 :
    Bind(IndexOf(u2, "#"), LAMBDA h :
    Bind(IF h > 0 THEN SubSeq(u2, 1, h - 1) ELSE u2, LAMBDA u3 :
    Bind(IndexOf(u3, "?"), LAMBDA q :
        [exc |-> IF ("[" \in Range(netloc)) # ("]" \in Range(netloc))
                 THEN "ValueError" ELSE "none",
         scheme |-> IF has_sch THEN SubSeq(url, 1, c - 1) ELSE << >>,
         netloc |-> netloc,
         path |-> IF q > 0 THEN SubSeq(u3, 1, q - 1) ELSE u3,
         query |-> IF q > 0 THEN SubSeq(u3, q + 1, Len(u3)) ELSE << >>,
         fragment |-> IF h > 0 THEN SubSeq(u2, h + 1, Len(u2)) ELSE << >>])))))))))))

uses_netloc == { <<"http">>, <<"https">>, <<"ftp">> }

\* urllib.parse.urlunsplit((scheme, netloc, url, query, fragment))
urlunsplit(scheme, netloc, url, query, fragment) ==
    Bind(IF netloc # << >>
            \/ (scheme # << >> /\ scheme \in uses_netloc
                /\ ~(Len(url) >= 2 /\ url[1] = "/" /\ url[2] = "/"))
         THEN <<"/", "/">> \o netloc
              \o (IF url # << >> /\ url[1] # "/" THEN <<"/">> ELSE << >>) \o url
         ELSE url, LAMBDA u1 :
        (IF scheme # << >> THEN scheme \o <<":">> ELSE << >>) \o u1
        \o (IF query # << >> THEN <<"?">> \o query ELSE << >>)
        \o (IF fragment # << >> THEN <<"#">> \o fragment ELSE << >>))

\* translate_url that also stores the target urlconf in the caller's thread.
translate_url_leaky(t, url, lang_code) ==
    /\ urlconfs' = [urlconfs EXCEPT ![t] = <<"urlsB">>]
    /\ last' = Call(t, "translate_url", <<url, <<lang_code>> >>, url, "none", {}, NoDetail)
    /\ UNCHANGED <<prefixes, caches>>

\* The name translate_url reverses for a match (line 204).
to_be_reversed(match) ==
    IF truthy(match.namespace)
    THEN match.namespace \o <<":">> \o match.url_name
    ELSE match.url_name

\* translate_url(url, lang_code) in thread t under the caches rc and nc
\* (lines 198-212): what it returns or raises, and the caches it leaves.
translate_url_outcome(t, rc, nc, url, lang_code) ==
    Bind(urlsplit(url), LAMBDA parsed :
      IF parsed.exc # "none"
      THEN [res |-> None, exc |-> parsed.exc, rc |-> rc, nc |-> nc,
            computed |-> {}, stage |-> "urlsplit"]
      ELSE
      Bind(resolve(t, rc, parsed.path, None), LAMBDA m :
        IF m.exc # "none"
        THEN [res |-> url, exc |-> "none", rc |-> m.rc, nc |-> nc,
              computed |-> m.computed, stage |-> "resolve"]
        ELSE
        Bind(reverse(t, m.rc, nc, to_be_reversed(m.match), None,
                     m.match.kwargs, None, lang_code), LAMBDA r :
             [res |-> IF r.exc # "none" THEN url
                      ELSE urlunsplit(parsed.scheme, parsed.netloc, r.res,
                                      parsed.query, parsed.fragment),
              exc |-> "none", rc |-> r.rc, nc |-> r.nc,
              computed |-> m.computed \cup r.computed,
              stage |-> IF r.exc # "none" THEN "reverse" ELSE "done"])))

translate_url(t, url, lang_code) ==
    /\ resolver_cache'
           = translate_url_outcome(t, resolver_cache, ns_resolver_cache, url, lang_code).rc
    /\ ns_resolver_cache'
           = translate_url_outcome(t, resolver_cache, ns_resolver_cache, url, lang_code).nc
    /\ last' = Bind(translate_url_outcome(t, resolver_cache, ns_resolver_cache, url,
                                          lang_code), LAMBDA o :
                    Call(t, "translate_url", <<url, <<lang_code>> >>, o.res, o.exc,
                         o.computed, [stage |-> o.stage]))
    /\ UNCHANGED <<prefixes, urlconfs, callable_cache>>

\* clear_url_caches that forgets the namespace resolvers.
clear_url_caches_partial(t) ==
    /\ callable_cache' = EmptyCache
    /\ resolver_cache' = EmptyCache
    /\ last' = Call(t, "clear_url_caches", << >>, None, "none", {}, NoDetail)
    /\ UNCHANGED <<prefixes, urlconfs, ns_resolver_cache>>

clear_url_caches(t) ==
    /\ callable_cache' = EmptyCache
    /\ resolver_cache' = EmptyCache
    /\ ns_resolver_cache' = EmptyCache
    /\ last' = Call(t, "clear_url_caches", << >>, None, "none", {}, NoDetail)
    /\ UNCHANGED <<prefixes, urlconfs>>

(***************************************************************************)
(* utils.py: get_callable() and get_mod_func().                            *)
(***************************************************************************)
\* What import_module finds: the importable modules with their attributes,
\* and the submodules that exist but fail to import.
Modules ==
    [ m \in { <<"views">>, <<"pkg">>, <<"pkg", ".", "views">> } |->
      CASE m = <<"views">> -> { [attr |-> "index", value |-> <<"<fn>", "views.index">>],
                                [attr |-> "LIMIT", value |-> <<"<int>", "10">>] }
        [] m = <<"pkg", ".", "views">> ->
                              { [attr |-> "detail", value |-> <<"<fn>", "pkg.views.detail">>] }
        [] OTHER -> {} ]

BrokenModules == { <<"pkg", ".", "broken">> }

importable(name) == name \in DOMAIN Modules

module_has_submodule(parent, sub) ==
    importable(parent \o <<".">> \o sub) \/ (parent \o <<".">> \o sub) \in BrokenModules

get_mod_func(callback) ==
    IF "." \notin Range(callback)
    THEN [mod |-> callback, func |-> << >>]
    ELSE LET dot == CHOOSE i \in 1..Len(callback) :
                        callback[i] = "." /\ \A j \in (i + 1)..Len(callback) : callback[j] # "."
         IN  [mod |-> SubSeq(callback, 1, dot - 1),
              func |-> SubSeq(callback, dot + 1, Len(callback))]

\* The import of mod_name failed (lines 39-49).
import_failure(mod_name) ==
    Bind(get_mod_func(mod_name), LAMBDA pf :
        IF truthy(pf.func)
        THEN IF ~importable(pf.mod) THEN "ImportError"
             ELSE IF ~module_has_submodule(pf.mod, pf.func) THEN "ViewDoesNotExist"
             ELSE "ImportError"
        ELSE "ImportError")

\* The body of get_callable (lines 23-72), without the lru_cache wrapper.
get_callable_body(lookup_view) ==
    IF callable(lookup_view) THEN [exc |-> "none", value |-> lookup_view]
    ELSE IF ~is_str(lookup_view) THEN [exc |-> "ViewDoesNotExist", value |-> None]
    ELSE
    Bind(get_mod_func(lookup_view), LAMBDA mf :
        IF ~truthy(mf.func) THEN [exc |-> "ImportError", value |-> None]
        ELSE IF ~importable(mf.mod) THEN [exc |-> import_failure(mf.mod), value |-> None]
        ELSE Bind({ a \in Modules[mf.mod] : <<a.attr>> = mf.func }, LAMBDA attrs :
             IF attrs = {} THEN [exc |-> "ViewDoesNotExist", value |-> None]
             ELSE Bind((CHOOSE a \in attrs : TRUE).value, LAMBDA view_func :
                  IF ~callable(view_func)
                  THEN [exc |-> "ViewDoesNotExist", value |-> None]
                  ELSE [exc |-> "none", value |-> view_func])))

\* @functools.lru_cache(maxsize=None) get_callable(lookup_view) under the
\* cache: a call that raises stores nothing.
get_callable_outcome(cache, lookup_view) ==
    Bind(get_callable_body(lookup_view), LAMBDA b :
    Bind(lru_lookup(cache, "get_callable", lookup_view, b.value), LAMBDA r :
        IF ~Cached(cache, lookup_view) /\ b.exc # "none"
        THEN [cache |-> cache, res |-> None, exc |-> b.exc,
              computed |-> {<<"get_callable", lookup_view>>}]
        ELSE [cache |-> r.cache, res |-> r.value, exc |-> "none",
              computed |-> r.computed]))

get_callable(t, lookup_view) ==
    /\ callable_cache' = get_callable_outcome(callable_cache, lookup_view).cache
    /\ last' = Bind(get_callable_outcome(callable_cache, lookup_view), LAMBDA o :
                    Call(t, "get_callable", <<lookup_view>>, o.res, o.exc, o.computed,
                         NoDetail))
    /\ UNCHANGED <<prefixes, urlconfs, resolver_cache, ns_resolver_cache>>

(***************************************************************************)
(* conf.py: include().                                                     *)
(***************************************************************************)
\* Python values handed to include(): a str naming a module, a module object,
\* a list of patterns, or a tuple of such values.
PyStr(name) == [kind |-> "str", name |-> name]

PyModule(name) == [kind |-> "module", name |-> name]

PyList(patterns) == [kind |-> "list", patterns |-> patterns]

PyTuple(items) == [kind |-> "tuple", items |-> items]

\* A pattern of a urlconf: whether its .pattern is a LocalePrefixPattern.
Plain == [locale |-> FALSE]

LocalePrefixed == [locale |-> TRUE]

\* The urlconf modules import_module finds, with their attributes.
UrlModules ==
    [ m \in { <<"blogurls">>, <<"bareurls">>, <<"emptyurls">>, <<"i18nurls">> } |->
      CASE m = <<"blogurls">> -> [urlpatterns |-> <<Plain, Plain>>,
                                  has_app_name |-> TRUE, app_name |-> <<"blog">>]
        [] m = <<"bareurls">> -> [urlpatterns |-> <<Plain>>,
                                  has_app_name |-> FALSE, app_name |-> None]
        [] m = <<"emptyurls">> -> [urlpatterns |-> <<Plain>>,
                                   has_app_name |-> TRUE, app_name |-> << >>]
        [] OTHER              -> [urlpatterns |-> <<Plain, LocalePrefixed>>,
                                  has_app_name |-> TRUE, app_name |-> <<"i18n">>] ]

Raise(exc) == [exc |-> exc, res |-> None]

\* The part after the unpacking that lets every importable declaration
\* through.
include_tail_nocheck(urlconf_module0, app_name0, namespace0) ==
    IF urlconf_module0.kind = "str" /\ urlconf_module0.name \notin DOMAIN UrlModules
    THEN Raise("ImportError")
    ELSE
    LET urlconf_module == IF urlconf_module0.kind = "str"
                          THEN PyModule(urlconf_module0.name) ELSE urlconf_module0
        is_mod   == urlconf_module.kind = "module"
        app_name == IF is_mod /\ UrlModules[urlconf_module.name].has_app_name
                    THEN UrlModules[urlconf_module.name].app_name ELSE app_name0
    IN  [exc |-> "none",
         res |-> [urlconf_module |-> urlconf_module, app_name |-> app_name,
                  namespace |-> IF truthy(namespace0) THEN namespace0 ELSE app_name]]

\* The part of include() after the tuple is unpacked (lines 42-66).
include_tail(urlconf_module0, app_name0, namespace0) ==
    IF urlconf_module0.kind = "str" /\ urlconf_module0.name \notin DOMAIN UrlModules
    THEN Raise("ImportError")
    ELSE
    LET urlconf_module == IF urlconf_module0.kind = "str"
                          THEN PyModule(urlconf_module0.name) ELSE urlconf_module0
        is_mod   == urlconf_module.kind = "module"
        patterns == IF is_mod THEN PyList(UrlModules[urlconf_module.name].urlpatterns)
                    ELSE urlconf_module
        app_name == IF is_mod /\ UrlModules[urlconf_module.name].has_app_name
                    THEN UrlModules[urlconf_module.name].app_name ELSE app_name0
        namespace == IF truthy(namespace0) THEN namespace0 ELSE app_name
    IN  IF truthy(namespace0) /\ ~truthy(app_name)
        THEN Raise("ImproperlyConfigured")
        ELSE IF patterns.kind \in {"list", "tuple"}
                /\ \E i \in 1..Len(IF patterns.kind = "list" THEN patterns.patterns
                                   ELSE patterns.items) :
                       (IF patterns.kind = "list" THEN patterns.patterns
                        ELSE patterns.items)[i].locale
        THEN Raise("ImproperlyConfigured")
        ELSE [exc |-> "none",
              res |-> [urlconf_module |-> urlconf_module, app_name |-> app_name,
                       namespace |-> namespace]]

\* include(arg, namespace=None) (lines 12-66).
include(arg, namespace) ==
    IF arg.kind = "tuple"
    THEN IF Len(arg.items) # 2
         THEN Raise("ImproperlyConfigured")
         ELSE include_tail(arg.items[1], arg.items[2], namespace)
    ELSE include_tail(arg, None, namespace)

call_include(t, arg, namespace) ==
    /\ last' = Bind(include(arg, namespace), LAMBDA r :
                    Call(t, "include", <<arg, namespace>>, r.res, r.exc, {}, NoDetail))
    /\ UNCHANGED <<prefixes, urlconfs, caches>>

(***************************************************************************)
(* The interleaved specification: the operations of base.py called from    *)
(* any thread in any order.                                                *)
(***************************************************************************)
PrefixInputs == { <<"/", "app">>, <<"/", "app", "/">> }

UrlconfInputs == { None, << >>, <<"urlsB">> }

DefaultInputs == { None, <<"urlsD">> }

ViewInputs == { <<"home">>, <<"zzz", ":", "detail">> }

PathInputs == { <<"/">>, <<"/", "nope", "/">> }

UrlInputs == { <<"/">>, <<"/", "nope", "/">>,
               <<"http", ":", "/", "/", "[", "/">> }

Init ==
    /\ prefixes = [t \in Threads |-> Unset]
    /\ urlconfs = [t \in Threads |-> Unset]
    /\ callable_cache = EmptyCache
    /\ resolver_cache = EmptyCache
    /\ ns_resolver_cache = EmptyCache
    /\ last = Call(0, "init", << >>, None, "none", {}, NoDetail)

Next ==
    \E t \in Threads :
        \/ \E p \in PrefixInputs : set_script_prefix(t, p)
        \/ call_get_script_prefix(t)
        \/ clear_script_prefix(t)
        \/ \E u \in UrlconfInputs : set_urlconf(t, u)
        \/ \E d \in DefaultInputs : call_get_urlconf(t, d)
        \/ \E p \in PathInputs : call_resolve(t, p, None)
        \/ \E p \in PathInputs : is_valid_path(t, p, None)
        \/ \E v \in ViewInputs : call_reverse(t, v, None, {}, None)
        \/ \E u \in UrlInputs : translate_url(t, u, "fr")
        \/ clear_url_caches(t)

Spec == Init /\ [][Next]_vars

(***************************************************************************)
(* The memoised lookups: get_callable, get_resolver (through resolve and   *)
(* reverse) and get_ns_resolver (through reverse), and clear_url_caches.   *)
(***************************************************************************)
CallableInputs == { <<"views", ".", "index">>, <<"pkg", ".", "views", ".", "detail">>,
                    <<"views", ".", "missing">>, <<"views", ".", "LIMIT">>,
                    <<"index">>, <<"nomod", ".", "index">>,
                    <<"pkg", ".", "nosub", ".", "index">>,
                    <<"pkg", ".", "broken", ".", "index">>,
                    <<"nopkg", ".", "views", ".", "index">>,
                    <<"<int>", "3">> }

CacheViewInputs == { <<"blog", ":", "detail">>, <<"home">> }

CacheUrlconfInputs == { None, <<"urlsB">> }

NextCache ==
    \E t \in Threads :
        \/ \E v \in CallableInputs : get_callable(t, v)
        \/ \E v \in CacheViewInputs, u \in CacheUrlconfInputs :
               call_reverse(t, v, u, {}, None)
        \/ \E u \in CacheUrlconfInputs : call_resolve(t, <<"/">>, u)
        \/ clear_url_caches(t)

SpecCache == Init /\ [][NextCache]_vars

(***************************************************************************)
(* reverse() as a function of its arguments: the script prefix is set up,  *)
(* then one call is made.                                                  *)
(***************************************************************************)
MaxNs == 2

NsSegs == { <<"blog">>, <<"blog2">>, <<"news">>, <<"shop">>, <<"zzz">> }

LeafNames == { <<"detail">>, <<"index">> }

RECURSIVE NsPaths(_)
\* The namespace paths of at most n segments, each ending with ":".
NsPaths(n) ==
    IF n = 0 THEN { << >> }
    ELSE LET shorter == NsPaths(n - 1)
         IN  shorter \cup { seg \o <<":">> \o p : seg \in NsSegs, p \in shorter }

ViewNames == { p \o leaf : p \in NsPaths(MaxNs), leaf \in LeafNames }

CurrentApps == { None, << >>, <<"blog2">>, <<"news2">>,
                 <<"shop", ":", "blog2">>, <<"zzz", ":", "blog2">> }

KwargsInputs == { {}, { [k |-> "<sid>", v |-> "7"] } }

NextReverse ==
    \E t \in Threads :
        /\ last.op # "reverse"
        /\ \/ /\ \A u \in Threads : prefixes[u] = Unset
              /\ set_script_prefix(t, <<"/", "app">>)
           \/ \E v \in ViewNames, u \in CacheUrlconfInputs, kw \in KwargsInputs,
                 ca \in CurrentApps : call_reverse(t, v, u, kw, ca)

SpecReverse == Init /\ [][NextReverse]_vars

(***************************************************************************)
(* include() as a function of its arguments.                               *)
(***************************************************************************)
\* What stands for the urlconf module: names of modules that import and of
\* one that does not, a module object, lists and a tuple of patterns.
IncludeModules ==
    { PyStr(<<"blogurls">>), PyStr(<<"bareurls">>), PyStr(<<"emptyurls">>),
      PyStr(<<"i18nurls">>), PyStr(<<"nomodule">>), PyModule(<<"blogurls">>),
      PyList(<<Plain>>), PyList(<<Plain, LocalePrefixed>>) }

IncludeAppNames == { None, << >>, <<"app">> }

IncludeNamespaces == { None, << >>, <<"ns">> }

IncludeArgs ==
    IncludeModules
    \cup { PyTuple(<<m, a>>) : m \in IncludeModules, a \in IncludeAppNames }
    \cup { PyTuple(<<PyTuple(<<Plain, Plain, LocalePrefixed>>), a>>) : a \in IncludeAppNames }
    \cup { PyTuple(<< >>) }
    \cup { PyTuple(<<m>>) : m \in {PyStr(<<"blogurls">>), PyList(<<Plain>>)} }
    \cup { PyTuple(<<m, <<"app">>, <<"ns">> >>) :
               m \in {PyStr(<<"blogurls">>), PyList(<<Plain>>)} }

NextInclude ==
    \E t \in Threads, arg \in IncludeArgs, namespace \in IncludeNamespaces :
        call_include(t, arg, namespace)

SpecInclude == Init /\ [][NextInclude]_vars

(***************************************************************************)
(* translate_url() as a function of its arguments: the thread's prefix and *)
(* urlconf are set up, then one call is made.                              *)
(***************************************************************************)
UrlOrigins ==
    { << >>, <<"http", ":", "/", "/", "h">>, <<"/", "/", "h">>,
      <<"http", ":", "/", "/", "[", ":", ":", "1", "]">>,
      <<"http", ":", "/", "/", "[">> }

UrlPaths ==
    { <<"/">>, <<"/", "blog", "/", "detail", "/">>,
      <<"/", "shop", "/", "7", "/", "cart", "/">>, <<"/", "raw", "/">>,
      <<"/", "nope", "/">> }

UrlSuffixes == { << >>, <<"?", "q">>, <<"#", "f">> }

TranslateUrls == { o \o p \o x : o \in UrlOrigins, p \in UrlPaths, x \in UrlSuffixes }

NextTranslate ==
    \E t \in Threads :
        /\ last.op # "translate_url"
        /\ \/ set_script_prefix(t, <<"/", "app">>)
           \/ set_urlconf(t, <<"urlsB">>)
           \/ \E u \in TranslateUrls, l \in Langs : translate_url(t, u, l)

SpecTranslate == Init /\ [][NextTranslate]_vars

(***************************************************************************)
(* The script prefix alone: every way the code writes it, with prefixes    *)
(* that end and do not end with "/", the empty string included, and a      *)
(* thread that sets again the value it reads.                              *)
(***************************************************************************)
PrefixStrings == { << >>, <<"/">>, <<"app">>, <<"/", "app">>,
                   <<"/", "app", "/">>, <<"/", "a", "/", "b">>, <<"/", "/">> }

ForceScriptNames == { None, << >>, <<"/", "forced">>, <<"/", "forced", "/">> }

NextPrefix ==
    \E t \in Threads :
        \/ \E p \in PrefixStrings : set_script_prefix(t, p)
        \/ set_script_prefix(t, get_script_prefix(t))
        \/ \E sp \in BOOLEAN, f \in ForceScriptNames : setup(t, sp, f)
        \/ call_get_script_prefix(t)
        \/ clear_script_prefix(t)

SpecPrefix == Init /\ [][NextPrefix]_vars

(***************************************************************************)
(* Properties.                                                             *)
(***************************************************************************)
normalised(p) == IF endswith(p, "/") THEN p ELSE p \o <<"/">>

\* C1: a call made in one thread never changes what get_script_prefix() or
\* get_urlconf() returns in another thread; the calling thread reads back the
\* value it has just set.
C1_ThreadIsolation ==
    [][ /\ \A t \in Threads : last'.t # t =>
              /\ get_script_prefix(t)' = get_script_prefix(t)
              /\ \A d \in DefaultInputs : get_urlconf(t, d)' = get_urlconf(t, d)
        /\ last'.op = "set_script_prefix" =>
              getattr_value(prefixes', last'.t, <<"/">>) = normalised(last'.args[1])
        /\ (last'.op = "set_urlconf" /\ truthy(last'.args[1])) =>
              \A d \in DefaultInputs :
                  getattr_value(urlconfs', last'.t, d) = last'.args[1] ]_vars

\* Thread 2 has just cleared its prefix while thread 1 still reads the prefix
\* and urlconf it set itself.
C1_Witness ==
    /\ last.t = 2 /\ last.op = "clear_script_prefix" /\ ~last.d.caught
    /\ get_script_prefix(1) = <<"/", "app", "/">>
    /\ get_urlconf(1, None) = <<"urlsB">>
    /\ get_script_prefix(2) = <<"/">>
    /\ get_urlconf(2, None) = None

\* C2: unset slots read as '/' and as the given default; clear_script_prefix()
\* and set_urlconf(None) restore those readings and never fail, also when the
\* slot was already unset.
C2_DefaultsAndClear ==
    /\ (last.op = "get_script_prefix" /\ prefixes[last.t] = Unset) =>
           last.res = <<"/">>
    /\ (last.op = "get_urlconf" /\ urlconfs[last.t] = Unset) =>
           last.res = last.args[1]
    /\ last.op = "clear_script_prefix" =>
           last.exc = "none" /\ get_script_prefix(last.t) = <<"/">>
    /\ (last.op = "set_urlconf" /\ last.args[1] = None) =>
           /\ last.exc = "none"
           /\ \A d \in DefaultInputs : get_urlconf(last.t, d) = d

\* clear_script_prefix() was called in a thread whose slot was already unset.
C2_Witness ==
    /\ last.op = "clear_script_prefix" /\ last.d.caught
    /\ last.exc = "none"
    /\ get_script_prefix(last.t) = <<"/">>

\* C8: a thread's script prefix and urlconf change only in a step of
\* set_script_prefix, clear_script_prefix or set_urlconf made by that thread.
C8_OnlySettersWrite ==
    [][ \A t \in Threads :
          /\ prefixes'[t] # prefixes[t] =>
                 last'.t = t /\ last'.op \in {"set_script_prefix", "clear_script_prefix"}
          /\ urlconfs'[t] # urlconfs[t] =>
                 last'.t = t /\ last'.op = "set_urlconf" ]_vars

\* translate_url() raised in a thread whose prefix and urlconf are still set.
C8_Witness ==
    /\ last.op = "translate_url" /\ last.exc = "ValueError"
    /\ prefixes[last.t] = <<"/", "app", "/">>
    /\ urlconfs[last.t] = <<"urlsB">>

\* The urlconf a resolve() or reverse() call recorded in c looks up, given
\* the urlconf slots uc of the threads.
urlconf_key(c, uc) ==
    IF c.args[2] = None THEN getattr_value(uc, c.t, None) ELSE c.args[2]

\* The key of the namespace resolver a reverse() call recorded in c asks for.
ns_key(c) == <<c.d.ns_pattern, c.d.resolver, c.d.ns_converters>>

asks_ns_resolver(c) ==
    c.op = "reverse" /\ c.d.walk_exc = "none" /\ c.d.ns_pattern # << >>

name_segs(c) == split(c.args[1], ":")

hint_segs(c) == IF truthy(c.args[3]) THEN split(c.args[3], ":") ELSE << >>

\* The current_app segment at depth i, None when there is none.
hint_at(c, i) == IF i <= Len(hint_segs(c)) THEN hint_segs(c)[i] ELSE None

\* The current_app segment at depth i names an instance of the application
\* the i-th namespace segment designates.
hint_names(c, i) ==
    /\ HasApp(c.d.steps[i].resolver, c.d.steps[i].seg)
    /\ truthy(hint_at(c, i))
    /\ hint_at(c, i) \in Range(AppList(c.d.steps[i].resolver, c.d.steps[i].seg))

several_instances(c, i) ==
    /\ HasApp(c.d.steps[i].resolver, c.d.steps[i].seg)
    /\ Len(AppList(c.d.steps[i].resolver, c.d.steps[i].seg)) > 1

\* At every depth above i the namespace looked up was the current_app segment.
hint_followed(c, i) == \A j \in 1..(i - 1) : c.d.steps[j].ns = hint_at(c, j)

\* C3: when a namespace segment is an application name with several
\* instances, current_app names one of them at the same depth, and at every
\* outer depth the namespace looked up was the current_app segment of that
\* depth, the lookup goes through the instance current_app names.
C3_HintedInstance ==
    last.op = "reverse" =>
        \A i \in 1..Len(last.d.steps) :
            (several_instances(last, i) /\ hint_names(last, i) /\ hint_followed(last, i))
                => last.d.steps[i].ns = hint_at(last, i)

\* C3 as stated: the instance current_app names at the same depth is used,
\* whatever happened at the outer depths.
C3_AsStated ==
    last.op = "reverse" =>
        \A i \in 1..Len(last.d.steps) :
            (several_instances(last, i) /\ hint_names(last, i))
                => last.d.steps[i].ns = hint_at(last, i)

\* 'shop:blog:detail' with current_app 'shop:blog2' went through 'blog2',
\* registered after 'blog'.
C3_Witness ==
    /\ last.op = "reverse" /\ last.exc = "none"
    /\ Len(last.d.steps) = 2
    /\ several_instances(last, 2) /\ hint_names(last, 2) /\ hint_followed(last, 2)
    /\ last.d.steps[2].seg = <<"blog">>
    /\ last.d.steps[2].ns = <<"blog2">>
    /\ AppList(last.d.steps[2].resolver, <<"blog">>)[1] = <<"blog">>

\* The namespace the code falls back on for application segment seg.
default_instance(resolver, seg) ==
    IF seg \in Range(AppList(resolver, seg)) THEN seg ELSE AppList(resolver, seg)[1]

\* C4: when a namespace segment designates an application name and no
\* current_app hint identifies one of its instances, the segment itself is
\* looked up when it is one of the instances, the first registered instance
\* otherwise.
C4_DefaultInstance ==
    last.op = "reverse" =>
        \A i \in 1..Len(last.d.steps) :
            (/\ HasApp(last.d.steps[i].resolver, last.d.steps[i].seg)
             /\ ~(hint_names(last, i) /\ hint_followed(last, i)))
                => last.d.steps[i].ns
                       = default_instance(last.d.steps[i].resolver, last.d.steps[i].seg)

\* C4 as stated: without an identifying hint the first registered instance
\* is looked up.
C4_AsStated ==
    last.op = "reverse" =>
        \A i \in 1..Len(last.d.steps) :
            (/\ HasApp(last.d.steps[i].resolver, last.d.steps[i].seg)
             /\ ~(hint_names(last, i) /\ hint_followed(last, i)))
                => last.d.steps[i].ns
                       = AppList(last.d.steps[i].resolver, last.d.steps[i].seg)[1]

\* 'news:index' without current_app went through 'news1', the first instance
\* of an application none of whose instances is called 'news'.
C4_Witness ==
    /\ last.op = "reverse" /\ last.exc = "none" /\ last.args[3] = None
    /\ Len(last.d.steps) = 1
    /\ last.d.steps[1].seg = <<"news">>
    /\ last.d.steps[1].ns = <<"news1">>

\* x occurs in text s as a run of consecutive tokens.
contains(s, x) ==
    \E k \in 0..(Len(s) - Len(x)) : SubSeq(s, k + 1, k + Len(x)) = x

\* The namespaces looked up with success before depth i.
resolved_before(c, i) == [j \in 1..(i - 1) |-> c.d.steps[j].ns]

\* The lookup at depth i finds no entry in the resolver reached so far.
unregistered_at(c, i) == ~HasNs(c.d.steps[i].resolver, c.d.steps[i].ns)

\* C6: when the namespace looked up at some depth (after application-name
\* substitution) is not a key of the namespace index of the resolver reached
\* so far, reverse() raises NoReverseMatch and returns no path; the message
\* contains that namespace and, when at least one namespace was resolved
\* before, their colon-joined path.
C6_UnregisteredNamespace ==
    last.op = "reverse" =>
        \A i \in 1..Len(last.d.steps) :
            unregistered_at(last, i) =>
                /\ last.exc = "NoReverseMatch"
                /\ last.res = None
                /\ contains(last.d.msg, <<"'">> \o last.d.steps[i].ns \o <<"'">>)
                /\ i > 1 => contains(last.d.msg,
                                <<"'">> \o join(resolved_before(last, i), ":") \o <<"'">>)

\* 'shop:zzz:detail' failed on 'zzz' inside 'shop'.
C6_Witness ==
    /\ last.op = "reverse" /\ last.exc = "NoReverseMatch"
    /\ Len(last.d.steps) = 2
    /\ unregistered_at(last, 2)
    /\ last.d.steps[2].ns = <<"zzz">>
    /\ resolved_before(last, 2) = << <<"shop">> >>

RECURSIVE extras(_)
\* The prefix fragments of the namespaces of steps, outermost first.
extras(steps) ==
    IF steps = << >> THEN << >>
    ELSE extras(Front(steps)) \o NsOf(Last(steps).resolver, Last(steps).ns).extra

\* C10: for 'n1:...:nk:leaf' the leaf name is 'leaf'; the i-th lookup is for
\* ni (after application-name substitution) in the root resolver for i = 1
\* and in the resolver found for n(i-1) otherwise; when all k lookups succeed
\* the prefix pattern handed to the final lookup is the concatenation of the
\* k prefix fragments, outermost first, and the resolver is the one found for
\* nk; the prefix passed on is the thread's script prefix.
C10_OuterToInner ==
    last.op = "reverse" =>
        /\ last.d.view = Last(name_segs(last))
        /\ last.d.prefix = get_script_prefix(last.t)
        /\ Len(last.d.steps) <= Len(name_segs(last)) - 1
        /\ \A i \in 1..Len(last.d.steps) :
               /\ last.d.steps[i].seg = name_segs(last)[i]
               /\ HasApp(last.d.steps[i].resolver, last.d.steps[i].seg)
                      \/ last.d.steps[i].ns = last.d.steps[i].seg
               /\ i = 1 => last.d.steps[i].resolver = last.d.root
               /\ i > 1 =>
                      /\ ~unregistered_at(last, i - 1)
                      /\ last.d.steps[i].resolver
                             = NsOf(last.d.steps[i - 1].resolver,
                                    last.d.steps[i - 1].ns).resolver
        /\ last.d.walk_exc = "none" =>
               /\ Len(last.d.steps) = Len(name_segs(last)) - 1
               /\ last.d.ns_pattern = extras(last.d.steps)
               /\ last.d.steps # << >> =>
                      last.d.resolver = NsOf(Last(last.d.steps).resolver,
                                             Last(last.d.steps).ns).resolver
               /\ last.exc = "none" =>
                      SubSeq(last.res, 1, Len(last.d.prefix)) = last.d.prefix
        /\ last.d.walk_exc # "none" => unregistered_at(last, Len(last.d.steps))

\* 'shop:blog:detail' under the script prefix '/app/': 'shop' was looked up
\* in the root, 'blog' in the resolver of 'shop'.
C10_Witness ==
    /\ last.op = "reverse" /\ last.exc = "none"
    /\ last.d.prefix = <<"/", "app", "/">>
    /\ Len(last.d.steps) = 2
    /\ last.d.steps[1].resolver = "RA" /\ last.d.steps[1].ns = <<"shop">>
    /\ last.d.steps[2].resolver = "A_shop" /\ last.d.steps[2].ns = <<"blog">>
    /\ last.d.ns_pattern = <<"shop", "/", "<sid>", "/", "b", "/">>
    /\ last.res = <<"/", "app", "/", "shop", "/", "7", "/", "b", "/", "detail", "/">>

(***************************************************************************)
(* translate_url(): the outcome of the last call.                          *)
(***************************************************************************)
\* C5: translate_url(url, lang_code) never raises, and returns url
\* unchanged when resolving its path or reversing the resolved name fails.
C5_NeverRaises ==
    last.op = "translate_url" =>
        /\ last.exc = "none"
        /\ last.d.stage \in {"resolve", "reverse"} => last.res = last.args[1]

(***************************************************************************)
(* include(): the outcome of the last call, read off its arguments.        *)
(***************************************************************************)
is_tuple(arg) == arg.kind = "tuple"

\* The value standing for the urlconf module, for a non-tuple or a 2-tuple.
given_module(arg) == IF is_tuple(arg) THEN arg.items[1] ELSE arg

given_app_name(arg) == IF is_tuple(arg) THEN arg.items[2] ELSE None

\* The module include() works on exists: it is no str, or a str that imports.
importable_module(m) == m.kind = "str" => m.name \in DOMAIN UrlModules

has_app_name_attr(m) ==
    /\ m.kind \in {"str", "module"}
    /\ m.name \in DOMAIN UrlModules
    /\ UrlModules[m.name].has_app_name

\* The app_name in effect: the module's attribute when it has one, else the
\* tuple's.
app_name_in_effect(arg) ==
    IF has_app_name_attr(given_module(arg))
    THEN UrlModules[given_module(arg).name].app_name
    ELSE given_app_name(arg)

\* The patterns include() iterates over, << >> when they are no list or tuple.
listed_patterns(m) ==
    CASE m.kind = "list"  -> m.patterns
      [] m.kind = "tuple" -> m.items
      [] m.name \in DOMAIN UrlModules -> UrlModules[m.name].urlpatterns
      [] OTHER -> << >>

locale_prefixed(arg) ==
    \E i \in 1..Len(listed_patterns(given_module(arg))) :
        listed_patterns(given_module(arg))[i].locale

\* The declarations the claim calls misconfigured.
misconfigured(arg, namespace) ==
    \/ is_tuple(arg) /\ Len(arg.items) # 2
    \/ ~(is_tuple(arg) /\ Len(arg.items) # 2)
           /\ \/ truthy(namespace) /\ ~truthy(app_name_in_effect(arg))
              \/ locale_prefixed(arg)

unimportable(arg) ==
    /\ ~(is_tuple(arg) /\ Len(arg.items) # 2)
    /\ ~importable_module(given_module(arg))

\* C9: include() raises ImproperlyConfigured and returns no triple for a
\* tuple that is no 2-tuple; otherwise the import error propagates when the
\* module is named by a string that does not import; otherwise it raises
\* ImproperlyConfigured when a non-empty namespace comes with no non-empty
\* app_name in effect or a listed pattern is locale-prefixed; otherwise it
\* returns the triple of the module, the app_name in effect and the namespace
\* given, or the app_name when the namespace is None or empty.
C9_IncludeOutcome ==
    last.op = "include" =>
        /\ unimportable(last.args[1]) => (last.exc = "ImportError" /\ last.res = None)
        /\ (~unimportable(last.args[1]) /\ misconfigured(last.args[1], last.args[2]))
               => (last.exc = "ImproperlyConfigured" /\ last.res = None)
        /\ (~unimportable(last.args[1]) /\ ~misconfigured(last.args[1], last.args[2]))
               => /\ last.exc = "none"
                  /\ last.res.app_name = app_name_in_effect(last.args[1])
                  /\ last.res.namespace = IF truthy(last.args[2]) THEN last.args[2]
                                          ELSE app_name_in_effect(last.args[1])
                  /\ given_module(last.args[1]).kind # "str"
                         => last.res.urlconf_module = given_module(last.args[1])
                  /\ given_module(last.args[1]).kind = "str"
                         => last.res.urlconf_module
                                = PyModule(given_module(last.args[1]).name)

\* C9 as stated: every misconfigured declaration raises ImproperlyConfigured,
\* every other one returns a triple with the namespace given, or the app_name.
C9_AsStated ==
    last.op = "include" =>
        IF misconfigured(last.args[1], last.args[2])
        THEN last.exc = "ImproperlyConfigured" /\ last.res = None
        ELSE /\ last.exc = "none"
             /\ last.res.namespace = IF truthy(last.args[2]) THEN last.args[2]
                                     ELSE last.res.app_name

\* include(('bareurls', None), namespace='ns'): a namespace and no app_name
\* from the tuple or the module.
C9_Witness ==
    /\ last.op = "include"
    /\ last.args = << PyTuple(<<PyStr(<<"bareurls">>), None>>), <<"ns">> >>
    /\ last.exc = "ImproperlyConfigured" /\ last.res = None

\* C11: in every state and every thread get_script_prefix() is a str ending
\* with "/"; set_script_prefix(p) stores p itself when p ends with "/" and
\* p + "/" otherwise, so setting the value the thread reads changes nothing;
\* an unset slot reads "/".
C11_TrailingSlash ==
    /\ [](\A t \in Threads :
             /\ is_str(get_script_prefix(t))
             /\ endswith(get_script_prefix(t), "/")
             /\ prefixes[t] = Unset => get_script_prefix(t) = <<"/">>)
    /\ [][ last'.op = "set_script_prefix" =>
              /\ endswith(last'.args[1], "/") =>
                     getattr_value(prefixes', last'.t, <<"/">>) = last'.args[1]
              /\ ~endswith(last'.args[1], "/") =>
                     getattr_value(prefixes', last'.t, <<"/">>) = last'.args[1] \o <<"/">>
              /\ last'.args[1] = get_script_prefix(last'.t) =>
                     getattr_value(prefixes', last'.t, <<"/">>) = get_script_prefix(last'.t) ]_vars

\* set_script_prefix('') has stored "/" in one thread while the other thread
\* holds a prefix that was given without its trailing "/".
C11_Witness ==
    /\ last.op = "set_script_prefix" /\ last.args[1] = << >>
    /\ prefixes[last.t] = <<"/">>
    /\ \E u \in Threads : u # last.t /\ prefixes[u] = <<"/", "a", "/", "b", "/">>

\* C12: reverse() takes one current_app segment per namespace level for as
\* long as the namespace it looked up at every outer level was that level's
\* segment; from the first level where the two differ, no deeper level gets
\* a segment, and an application name met there is resolved to its default
\* instance, also when the current_app segment of that depth names another
\* of its instances.
C12_HintDiscarded ==
    last.op = "reverse" =>
        \A i \in 1..Len(last.d.steps) :
            /\ hint_followed(last, i) => last.d.steps[i].current_ns = hint_at(last, i)
            /\ ~hint_followed(last, i) =>
                   /\ last.d.steps[i].current_ns = None
                   /\ HasApp(last.d.steps[i].resolver, last.d.steps[i].seg) =>
                          last.d.steps[i].ns
                              = default_instance(last.d.steps[i].resolver,
                                                 last.d.steps[i].seg)

\* 'shop:blog:detail' with current_app 'zzz:blog2': 'shop' was looked up where
\* the hint said 'zzz', and at the next level 'blog' was looked up without a
\* hint although 'blog2' is an instance of the application there.
C12_Witness ==
    /\ last.op = "reverse" /\ last.exc = "none"
    /\ last.args[1] = <<"shop", ":", "blog", ":", "detail">>
    /\ last.args[3] = <<"zzz", ":", "blog2">>
    /\ last.d.steps[1].current_ns = <<"zzz">> /\ last.d.steps[1].ns = <<"shop">>
    /\ ~hint_followed(last, 2) /\ hint_names(last, 2)
    /\ last.d.steps[2].current_ns = None
    /\ last.d.steps[2].ns = <<"blog">>

====
